---- MODULE Spec2Model ----
(***************************************************************************)
(* The preflight "run" command of tvk-plugins: cmd/preflight/cmd/run.go    *)
(* (runCmd.RunE) and tools/preflight/preflight.go (PerformPreflightChecks  *)
(* and the nine checks it drives).  The program is sequential; pc is the   *)
(* position of its single thread of control.  Outcomes of cluster calls    *)
(* and of calls into helpers that live outside these files are inputs,     *)
(* drawn with \E where the call is made.                                   *)
(***************************************************************************)
EXTENDS FiniteSets, Integers, Sequences, TLC

VARIABLES
    ops,                    \* cmdOps.PreflightOps: the RunOptions of the run
    cluster,                \* storage class / volume snapshot classes on the server
    pc,                     \* position of the thread of control
    logs,                   \* lines written through o.Logger, in order
    resNameSuffix,          \* package variable resNameSuffix (the run UID)
    preflightStatus,        \* local preflightStatus of PerformPreflightChecks
    err,                    \* local err of PerformPreflightChecks
    storageSnapshotSuccess, \* local storageSnapshotSuccess
    storageVolSnapClass,    \* package variable storageVolSnapClass
    resources,              \* pods, PVCs and volume snapshots in the namespace
    cleanups,               \* UIDs CleanupPreflightResources was invoked with
    clusterCalled,          \* whether a cluster API call has been issued
    step,                   \* steps of the check at pc that are already done
    attempts,               \* probes the wait at pc has made without success
    trace,                  \* what the check entered last did, in order: the
                            \* lines it logged itself, the calls it made
    cancelled,              \* whether the ctx handed to PerformPreflightChecks
                            \* has been cancelled
    result                  \* how the command ended ("" while it runs)

vars == <<ops, cluster, pc, logs, resNameSuffix, preflightStatus, err,
          storageSnapshotSuccess, storageVolSnapClass, resources, cleanups,
          clusterCalled, step, attempts, trace, cancelled, result>>

----------------------------------------------------------------------------
(* Bounds of the model *)

\* random indices 0..MaxRandIdx are the ones the random source hands out
MaxRandIdx == 1
\* longest list of volume snapshot classes the server returns
MaxVssc == 2
\* probes a wait makes before it gives up (the retry budget of
\* getDefaultRetryBackoffParams)
MaxAttempts == 2

----------------------------------------------------------------------------
(* Names *)

Nil == "nil"

\* the nine checks, named as the states of the orchestrator
KubectlPresent == "KubectlPresent"
ClusterAccessible == "ClusterAccessible"
HelmVersionOK == "HelmVersionOK"
K8sVersionOK == "K8sVersionOK"
RBACEnabled == "RBACEnabled"
StorageSnapshotClassMatch == "StorageSnapshotClassMatch"
CSIInstalled == "CSIInstalled"
DNSResolves == "DNSResolves"
VolumeSnapshotRoundTrip == "VolumeSnapshotRoundTrip"

FirstEight == <<KubectlPresent, ClusterAccessible, HelmVersionOK, K8sVersionOK,
                RBACEnabled, StorageSnapshotClassMatch, CSIInstalled, DNSResolves>>

\* log lines: "Checking ..." before a check, the check/cross line after it
Checking(c) == <<"checking", c>>
Successful(c) == <<"successful", c>>
Failed(c) == <<"failed", c>>
Skipping(c) == <<"skipping", c>>
CleanupFailedLine == <<"failed", "cleanup">>

\* the line PerformPreflightChecks logs for the outcome e of check c
OutcomeLine(c, e) == IF e # Nil THEN Failed(c) ELSE Successful(c)

MutStatusAfterKeep(status, e) == status

\* preflightStatus after a check returned e
StatusAfter(status, e) == IF e # Nil THEN FALSE ELSE status

----------------------------------------------------------------------------
(* Inputs: run options and cluster contents *)

StorageClassNames == {"", "standard"}
SnapshotClassNames == {"", "vsc1"}
LocalRegistries == {"", "registry.local"}
ImagePullSecrets == {"", "regcred"}

RunOptions ==
    [StorageClass : StorageClassNames, SnapshotClass : SnapshotClassNames,
     LocalRegistry : LocalRegistries, ImagePullSecret : ImagePullSecrets,
     PerformCleanupOnFail : BOOLEAN]

Provisioners == {"csi.example.com", "other.example.com"}
NotFound == "NotFound"

\* the key checkSnapshotclassForProvisioner looks up in vssc.Object
IsDefaultClassKey == "snapshot.storage.kubernetes.io/is-default-class"

\* An unstructured VolumeSnapshotClass: Object is the top-level map of the
\* object ("driver" and any further top-level field), metadata.name is what
\* GetName() returns, metadata.annotations holds the annotations.  Kubernetes
\* flags the default class of a driver with the annotation IsDefaultClassKey.
VsscNames == <<"vsc1", "vsc2", "vsc3", "vsc4">>
VsscName(i) == VsscNames[i]
VsscObjects(i) ==
    [name : {VsscName(i)}, driver : Provisioners,
     annotations : SUBSET {IsDefaultClassKey}, fields : SUBSET {IsDefaultClassKey}]

\* vssc.Object[key] == "true" for a key other than "driver"
ObjectFieldIsTrue(vssc, key) == key \in vssc.fields
\* the class carries the is-default-class annotation
FlaggedDefault(vssc) == IsDefaultClassKey \in vssc.annotations

RECURSIVE VsscLists(_)
VsscLists(n) ==
    IF n = 0 THEN {<<>>}
    ELSE LET shorter == VsscLists(n - 1)
         IN  shorter \cup
             {Append(l, c) : l \in {s \in shorter : Len(s) = n - 1}, c \in VsscObjects(n)}

RBACAPIGroup == "rbac.authorization.k8s.io"
RBACAPIVersion == "v1"

\* what schema.ParseGroupVersion makes of an entry of apiVersions: a group and
\* a version, or an error (ok = FALSE) for a malformed "a/b/c" string
GroupVersions ==
    {[ok |-> TRUE, Group |-> RBACAPIGroup, Version |-> RBACAPIVersion],
     [ok |-> TRUE, Group |-> RBACAPIGroup, Version |-> "v1beta1"],
     [ok |-> TRUE, Group |-> "apps", Version |-> "v1"],
     [ok |-> FALSE, Group |-> "", Version |-> ""]}

MaxGroups == 2
GroupLists == UNION {[1..n -> GroupVersions] : n \in 0..MaxGroups}

\* the group list of a server that serves the RBAC group and version
RbacGroups == <<[ok |-> TRUE, Group |-> RBACAPIGroup, Version |-> RBACAPIVersion]>>

\* cluster.provisioner: provisioner of the storage class named ops.StorageClass,
\* or NotFound; cluster.vsscList: the volume snapshot classes, in list order;
\* cluster.groups: the group/versions of the server's group list, in order
Clusters(maxLen) ==
    [provisioner : {NotFound, "csi.example.com"}, vsscList : VsscLists(maxLen),
     groups : {RbacGroups}]

----------------------------------------------------------------------------
(* runCmd.RunE *)

SetupFatal == "fatal: command setup failed"
StorageClassFatal == "fatal: storage-class is required, cannot be empty"
PullSecretFatal == "fatal: Cannot give image pull secret if local registry is not provided"
Fatals == {SetupFatal, StorageClassFatal, PullSecretFatal}

\* managePreflightInputs, setupLogger, InitKubeEnv, os.OpenFile and
\* validateResourceRequirementsField: each ends the process (log.Fatal) when it
\* fails.
RunESetup(setupOK) == IF setupOK THEN Nil ELSE SetupFatal

\* whether that setup (InitKubeEnv building the clients) calls the cluster
SetupCallsCluster == FALSE

MutRunEValidateNoStorageClass(o) ==
    IF o.ImagePullSecret # "" /\ o.LocalRegistry = "" THEN PullSecretFatal
    ELSE Nil

MutRunEValidateNoPullSecret(o) ==
    IF o.StorageClass = "" THEN StorageClassFatal
    ELSE Nil

\* the two logger.Fatalf guards of RunE on the run options
RunEValidate(o) ==
    IF o.StorageClass = "" THEN StorageClassFatal
    ELSE IF o.ImagePullSecret # "" /\ o.LocalRegistry = "" THEN PullSecretFatal
    ELSE Nil

\* RunE up to its call of PerformPreflightChecks
RunE ==
    /\ pc = "RunE"
    /\ \E setupOK \in BOOLEAN :
         LET fatal == IF RunESetup(setupOK) # Nil THEN RunESetup(setupOK)
                      ELSE RunEValidate(ops)
         IN  IF fatal # Nil
             THEN /\ pc' = "exited"
                  /\ result' = fatal
             ELSE /\ pc' = "PerformPreflightChecks"
                  /\ result' = result
    /\ clusterCalled' = SetupCallsCluster
    /\ UNCHANGED <<ops, cancelled, cluster, logs, resNameSuffix, preflightStatus, err,
                   storageSnapshotSuccess, storageVolSnapClass, resources,
                   cleanups, step, attempts, trace>>

----------------------------------------------------------------------------
(* CreateResourceNameSuffix *)

\* the alphabet the suffix is drawn from
letterBytes ==
    <<"a", "b", "c", "d", "e", "f", "g", "h", "i", "j", "k", "l", "m",
      "n", "o", "p", "q", "r", "s", "t", "u", "v", "w", "x", "y", "z">>

SuffixLen == 6

\* rand.Int failed: the index it answers, and the error it returns
RandErr == -1
UIDError == "rand.Int failed"

\* what the random source answers to the SuffixLen calls of rand.Int: an index
\* below len(letterBytes), or RandErr
RandStreams ==
    {[i \in 1..SuffixLen |-> k] : k \in 0..MaxRandIdx}
    \cup {[i \in 1..SuffixLen |-> IF i = j THEN RandErr ELSE 0] : j \in {1, SuffixLen}}

RECURSIVE MutSuffixLoopShort(_, _, _)
MutSuffixLoopShort(rs, i, suffix) ==
    IF i >= SuffixLen THEN [suffix |-> suffix, err |-> Nil]
    ELSE IF rs[i] = RandErr THEN [suffix |-> <<>>, err |-> UIDError]
    ELSE MutSuffixLoopShort(rs, i + 1, Append(suffix, letterBytes[rs[i] + 1]))

RECURSIVE SuffixLoop(_, _, _)
SuffixLoop(rs, i, suffix) ==
    IF i > SuffixLen THEN [suffix |-> suffix, err |-> Nil]
    ELSE IF rs[i] = RandErr THEN [suffix |-> <<>>, err |-> UIDError]
    ELSE SuffixLoop(rs, i + 1, Append(suffix, letterBytes[rs[i] + 1]))

CreateResourceNameSuffix(rs) == SuffixLoop(rs, 1, <<>>)

MutResourceNamePrefixOnly(prefix, suffix) == <<prefix>>

\* a resource name: <prefix> + <suffix>
ResourceName(prefix, suffix) == <<prefix>> \o suffix

----------------------------------------------------------------------------
(* PerformPreflightChecks: the UID *)

MutReturnOnUIDErrorNever(e) == FALSE

\* "if err != nil { ...; return err }" after CreateResourceNameSuffix
ReturnOnUIDError(e) == e # Nil

\* PerformPreflightChecks up to "Generated UID for preflight check"
GenerateUID ==
    /\ pc = "PerformPreflightChecks"
    /\ \E rs \in RandStreams :
         LET r == CreateResourceNameSuffix(rs)
         IN  /\ resNameSuffix' = r.suffix
             /\ err' = r.err
             /\ IF ReturnOnUIDError(r.err)
                THEN /\ pc' = "exited"
                     /\ result' = r.err
                     /\ UNCHANGED storageSnapshotSuccess
                ELSE /\ pc' = KubectlPresent
                     /\ storageSnapshotSuccess' = TRUE
                     /\ result' = result
    /\ preflightStatus' = TRUE
    /\ UNCHANGED <<ops, cancelled, cluster, logs, storageVolSnapClass, resources, cleanups,
                   clusterCalled, step, attempts, trace>>

----------------------------------------------------------------------------
(* PerformPreflightChecks: the check boundary *)

MutRecordOutcomeRetry(lg, c, e, next) ==
    /\ logs' = lg \o <<OutcomeLine(c, e)>>
    /\ preflightStatus' = StatusAfter(preflightStatus, e)
    /\ err' = e
    /\ pc' = IF e # Nil THEN c ELSE next

MutRecordOutcomeAbortOnFailure(lg, c, e, next) ==
    /\ logs' = lg \o <<OutcomeLine(c, e)>>
    /\ preflightStatus' = StatusAfter(preflightStatus, e)
    /\ err' = e
    /\ pc' = IF e # Nil THEN "Finish" ELSE next

\* the if/else that follows each check: log the outcome after the lines lg
\* logged so far, clear preflightStatus on an error, go on to the next check
RecordOutcome(lg, c, e, next) ==
    /\ logs' = lg \o <<OutcomeLine(c, e)>>
    /\ preflightStatus' = StatusAfter(preflightStatus, e)
    /\ err' = e
    /\ pc' = next

----------------------------------------------------------------------------
(* checkKubectl, checkClusterAccess *)

checkKubectl(lookPathOK) ==
    IF ~lookPathOK THEN "error finding 'kubectl' binary in $PATH" ELSE Nil

CheckKubectl ==
    /\ pc = KubectlPresent
    /\ \E lookPathOK \in BOOLEAN :
         RecordOutcome(logs \o <<Checking(KubectlPresent)>>, KubectlPresent,
                       checkKubectl(lookPathOK), ClusterAccessible)
    /\ trace' = <<>>
    /\ UNCHANGED <<ops, cancelled, cluster, resNameSuffix, storageSnapshotSuccess,
                   storageVolSnapClass, resources, cleanups, clusterCalled, step,
                   attempts, result>>

checkClusterAccess(getOK) ==
    IF ~getOK THEN "unable to access default namespace of cluster" ELSE Nil

CheckClusterAccess ==
    /\ pc = ClusterAccessible
    /\ \E getOK \in BOOLEAN :
         RecordOutcome(logs \o <<Checking(ClusterAccessible)>>, ClusterAccessible,
                       checkClusterAccess(getOK), HelmVersionOK)
    /\ clusterCalled' = TRUE
    /\ trace' = <<>>
    /\ UNCHANGED <<ops, cancelled, cluster, resNameSuffix, storageSnapshotSuccess,
                   storageVolSnapClass, resources, cleanups, step, attempts, result>>

----------------------------------------------------------------------------
(* checkHelmVersion, checkKubernetesVersion *)

\* A version string is modelled by its rank; VerBad is a string that
\* version.NewVersion rejects, VerErr a failed call for the version.
VerErr == -1
VerBad == -2
MinHelmVersion == 3
MinK8sVersion == 3
Versions == {VerErr, VerBad, 2, 3, 4}

\* the lines the helm check logs itself
OcpLine == <<"info", "Running OCP cluster. Helm not needed for OCP clusters">>
NotOcpLine == <<"info", "APIVersion not found on cluster, not an OCP cluster">>
HelmFoundLine == <<"info", "helm found at path">>
HelmMeetsLine == <<"info", "Helm version meets required version">>

\* the error returned and the lines logged
validateHelmBinary(isOpenshift, lookPathOK) ==
    IF isOpenshift THEN [err |-> Nil, lines |-> <<OcpLine>>]
    ELSE IF ~lookPathOK
         THEN [err |-> "error finding 'helm' binary in $PATH", lines |-> <<NotOcpLine>>]
    ELSE [err |-> Nil, lines |-> <<NotOcpLine, HelmFoundLine>>]

\* helmVersion: what the second GetHelmVersion call returns
validateHelmVersion(curVersion, helmVersion) ==
    IF helmVersion = VerErr THEN [err |-> "GetHelmVersion failed", lines |-> <<>>]
    ELSE IF curVersion = VerBad THEN [err |-> "malformed version", lines |-> <<>>]
    ELSE IF curVersion < MinHelmVersion
         THEN [err |-> "helm does not meet minimum version requirement", lines |-> <<>>]
    ELSE [err |-> Nil, lines |-> <<HelmMeetsLine>>]

\* curVersion, helmVersion: what the two GetHelmVersion calls return
checkHelmVersion(isOpenshift, lookPathOK, curVersion, helmVersion) ==
    LET b == validateHelmBinary(isOpenshift, lookPathOK)
        v == validateHelmVersion(curVersion, helmVersion)
    IN  IF b.err # Nil THEN b
        ELSE IF curVersion = VerErr
             THEN [err |-> "GetHelmVersion failed", lines |-> b.lines]
        ELSE [err |-> v.err, lines |-> b.lines \o v.lines]

CheckHelmVersion ==
    /\ pc = HelmVersionOK
    /\ \E isOpenshift \in BOOLEAN, lookPathOK \in BOOLEAN,
          curVersion \in Versions, helmVersion \in Versions :
         LET r == checkHelmVersion(isOpenshift, lookPathOK, curVersion, helmVersion)
         IN  /\ RecordOutcome(logs \o <<Checking(HelmVersionOK)>>, HelmVersionOK,
                              r.err, K8sVersionOK)
             /\ trace' = r.lines
    /\ clusterCalled' = TRUE
    /\ UNCHANGED <<ops, cancelled, cluster, resNameSuffix, storageSnapshotSuccess,
                   storageVolSnapClass, resources, cleanups, step, attempts, result>>

\* serverVer: VerErr when clientSet.ServerVersion() fails, else the GitVersion
checkKubernetesVersion(minVersion, serverVer) ==
    IF serverVer = VerErr THEN "ServerVersion failed"
    ELSE IF serverVer = VerBad THEN "malformed version"
    ELSE IF serverVer < minVersion
         THEN "kubernetes server version does not meet minimum requirements"
    ELSE Nil

CheckKubernetesVersion ==
    /\ pc = K8sVersionOK
    /\ \E serverVer \in Versions :
         RecordOutcome(logs \o <<Checking(K8sVersionOK)>>, K8sVersionOK,
                       checkKubernetesVersion(MinK8sVersion, serverVer), RBACEnabled)
    /\ clusterCalled' = TRUE
    /\ trace' = <<>>
    /\ UNCHANGED <<ops, cancelled, cluster, resNameSuffix, storageSnapshotSuccess,
                   storageVolSnapClass, resources, cleanups, step, attempts, result>>

----------------------------------------------------------------------------
(* checkKubernetesRBAC *)

DiscoveryErrors == {Nil, "GroupDiscoveryFailed", "other"}

RBACNotEnabled == "not enabled kubernetes RBAC"

RECURSIVE RBACLoop(_, _, _, _)
RBACLoop(apiVersions, i, apiGroup, apiVersion) ==
    IF i > Len(apiVersions) THEN RBACNotEnabled
    ELSE IF ~apiVersions[i].ok THEN Nil
    ELSE IF apiVersions[i].Group = apiGroup /\ apiVersions[i].Version = apiVersion
         THEN Nil
    ELSE RBACLoop(apiVersions, i + 1, apiGroup, apiVersion)

MutCheckKubernetesRBACFailOnAnyError(apiGroup, apiVersion, discErr, groupList) ==
    IF discErr # Nil THEN discErr
    ELSE RBACLoop(groupList, 1, apiGroup, apiVersion)

\* discErr, groupList: what discClient.ServerGroups() returns
checkKubernetesRBAC(apiGroup, apiVersion, discErr, groupList) ==
    IF discErr # Nil /\ discErr # "GroupDiscoveryFailed" THEN discErr
    ELSE RBACLoop(groupList, 1, apiGroup, apiVersion)

\* the entry of trace for the call discClient.ServerGroups() that returned e
ServerGroupsCall(e) == [op |-> "ServerGroups", err |-> e]

CheckKubernetesRBAC ==
    /\ pc = RBACEnabled
    /\ \E discErr \in DiscoveryErrors :
         /\ RecordOutcome(logs \o <<Checking(RBACEnabled)>>, RBACEnabled,
                          checkKubernetesRBAC(RBACAPIGroup, RBACAPIVersion, discErr,
                                              cluster.groups),
                          StorageSnapshotClassMatch)
         /\ trace' = <<ServerGroupsCall(discErr)>>
    /\ clusterCalled' = TRUE
    /\ UNCHANGED <<ops, cancelled, cluster, resNameSuffix, storageSnapshotSuccess,
                   storageVolSnapClass, resources, cleanups, step, attempts, result>>

----------------------------------------------------------------------------
(* checkStorageSnapshotClass *)

\* which of the cluster calls of checkStorageSnapshotClass fail for a reason
\* other than the object's absence
ApiFailures ==
    [getStorageClass : BOOLEAN, preferredVersion : BOOLEAN,
     listVssc : BOOLEAN, getVssc : BOOLEAN]
NoApiFailure ==
    [getStorageClass |-> FALSE, preferredVersion |-> FALSE,
     listVssc |-> FALSE, getVssc |-> FALSE]

MutVsscLoopAnyDriver(items, i, provisioner, sscName) ==
    IF i > Len(items) THEN sscName ELSE items[Len(items)].name

\* the range loop of checkSnapshotclassForProvisioner from item i on, sscName
\* being the name kept so far; the value is the name returned from inside the
\* loop, or else sscName as the loop leaves it
RECURSIVE VsscLoop(_, _, _, _)
VsscLoop(items, i, provisioner, sscName) ==
    IF i > Len(items) THEN sscName
    ELSE IF items[i].driver = provisioner
         THEN IF ObjectFieldIsTrue(items[i], IsDefaultClassKey)
              THEN items[i].name
              ELSE VsscLoop(items, i + 1, provisioner, items[i].name)
    ELSE VsscLoop(items, i + 1, provisioner, sscName)

checkSnapshotclassForProvisioner(api, vsscList, provisioner) ==
    IF api.preferredVersion
    THEN [name |-> "", err |-> "GetServerPreferredVersionForGroup failed"]
    ELSE IF api.listVssc THEN [name |-> "", err |-> "List failed"]
    ELSE IF Len(vsscList) = 0
         THEN [name |-> "", err |-> "no volume snapshot class found on cluster"]
    ELSE LET sscName == VsscLoop(vsscList, 1, provisioner, "")
         IN  IF sscName = ""
             THEN [name |-> "", err |-> "no matching volume snapshot class"]
             ELSE [name |-> sscName, err |-> Nil]

\* clusterHasVolumeSnapshotClass: the class of that name, or an error
clusterHasVolumeSnapshotClass(api, vsscList, name) ==
    LET hits == {k \in 1..Len(vsscList) : vsscList[k].name = name}
    IN  IF api.getVssc THEN [found |-> FALSE, err |-> "Get failed"]
        ELSE IF hits = {} THEN [found |-> FALSE, err |-> "volume snapshot class not found"]
        ELSE [found |-> TRUE, err |-> Nil, vssc |-> vsscList[CHOOSE k \in hits : TRUE]]

\* fmt.Errorf("volume snapshot class - %s driver does not match with given
\* StorageClass's provisioner=%s", o.SnapshotClass, provisioner), by class name
DriverMismatch(name) ==
    CASE name = "vsc1" ->
           "volume snapshot class - vsc1 driver does not match with given StorageClass's provisioner"
      [] name = "vsc2" ->
           "volume snapshot class - vsc2 driver does not match with given StorageClass's provisioner"
      [] OTHER ->
           "volume snapshot class - <other> driver does not match with given StorageClass's provisioner"

MutCheckStorageSnapshotClassNoCompare(o, cl, api, oldClass) ==
    IF api.getStorageClass THEN [err |-> "Get storageclass failed", class |-> oldClass]
    ELSE IF cl.provisioner = NotFound
         THEN [err |-> "not found storageclass", class |-> oldClass]
    ELSE IF o.SnapshotClass = ""
         THEN [err |-> Nil, class |-> IF Len(cl.vsscList) = 0 THEN "" ELSE cl.vsscList[1].name]
    ELSE [err |-> Nil, class |-> o.SnapshotClass]

\* the error returned and the value storageVolSnapClass is left with
\* (oldClass: its value on entry)
checkStorageSnapshotClass(o, cl, api, oldClass) ==
    IF api.getStorageClass THEN [err |-> "Get storageclass failed", class |-> oldClass]
    ELSE IF cl.provisioner = NotFound
         THEN [err |-> "not found storageclass", class |-> oldClass]
    ELSE IF o.SnapshotClass = ""
         THEN LET r == checkSnapshotclassForProvisioner(api, cl.vsscList, cl.provisioner)
              IN  [err |-> r.err, class |-> r.name]
    ELSE LET g == clusterHasVolumeSnapshotClass(api, cl.vsscList, o.SnapshotClass)
         IN  IF g.err # Nil THEN [err |-> g.err, class |-> o.SnapshotClass]
             ELSE IF g.vssc.driver = cl.provisioner
                  THEN [err |-> Nil, class |-> o.SnapshotClass]
             ELSE [err |-> DriverMismatch(o.SnapshotClass), class |-> o.SnapshotClass]

CheckStorageSnapshotClass ==
    /\ pc = StorageSnapshotClassMatch
    /\ \E api \in ApiFailures :
         LET r == checkStorageSnapshotClass(ops, cluster, api, storageVolSnapClass)
         IN  /\ storageVolSnapClass' = r.class
             /\ storageSnapshotSuccess' =
                  IF r.err # Nil THEN FALSE ELSE storageSnapshotSuccess
             /\ RecordOutcome(logs \o <<Checking(StorageSnapshotClassMatch)>>,
                              StorageSnapshotClassMatch, r.err, CSIInstalled)
    /\ clusterCalled' = TRUE
    /\ trace' = <<>>
    /\ UNCHANGED <<ops, cancelled, cluster, resNameSuffix, resources, cleanups, step, attempts,
                   result>>

----------------------------------------------------------------------------
(* checkCSI *)

CsiApis ==
    <<"volumesnapshotclasses.snapshot.storage.k8s.io",
      "volumesnapshotcontents.snapshot.storage.k8s.io",
      "volumesnapshots.snapshot.storage.k8s.io">>

\* what runtimeClient.Get answers for one CRD name
CrdAnswers == {"found", "notfound", "error"}

\* the lines checkCSI logs for one CRD name
FoundCsiApi(api) == <<"info", "Found CSI API", api>>
NotFoundCsiApi(api) == <<"error", "Not found CSI API", api>>

CsiApisNotFound == "some CSI APIs not found in cluster. Check logs for details"
CsiGetFailed == "Get of a CSI API failed"
CsiPrefVersionFailed == "GetServerPreferredVersionForGroup failed"

RECURSIVE MutCsiLoopStopAtMissing(_, _, _, _)
MutCsiLoopStopAtMissing(answers, i, apiFoundCnt, lines) ==
    IF i > Len(CsiApis) THEN [err |-> Nil, lines |-> lines]
    ELSE IF answers[i] = "error" THEN [err |-> CsiGetFailed, lines |-> lines]
    ELSE IF answers[i] = "notfound"
         THEN [err |-> CsiApisNotFound, lines |-> Append(lines, NotFoundCsiApi(CsiApis[i]))]
    ELSE MutCsiLoopStopAtMissing(answers, i + 1, apiFoundCnt + 1,
                                 Append(lines, FoundCsiApi(CsiApis[i])))

\* the range loop over CsiApis from name i on and the test that follows it;
\* lines: what the loop has logged so far
RECURSIVE CsiLoop(_, _, _, _)
CsiLoop(answers, i, apiFoundCnt, lines) ==
    IF i > Len(CsiApis)
    THEN [err |-> IF apiFoundCnt # Len(CsiApis) THEN CsiApisNotFound ELSE Nil,
          lines |-> lines]
    ELSE IF answers[i] = "error" THEN [err |-> CsiGetFailed, lines |-> lines]
    ELSE IF answers[i] = "notfound"
         THEN CsiLoop(answers, i + 1, apiFoundCnt,
                      Append(lines, NotFoundCsiApi(CsiApis[i])))
    ELSE CsiLoop(answers, i + 1, apiFoundCnt + 1, Append(lines, FoundCsiApi(CsiApis[i])))

checkCSI(prefVersionOK, answers) ==
    IF ~prefVersionOK THEN [err |-> CsiPrefVersionFailed, lines |-> <<>>]
    ELSE CsiLoop(answers, 1, 0, <<>>)

CheckCSI ==
    /\ pc = CSIInstalled
    /\ \E prefVersionOK \in BOOLEAN, answers \in [1..Len(CsiApis) -> CrdAnswers] :
         LET r == checkCSI(prefVersionOK, answers)
         IN  /\ RecordOutcome(logs \o <<Checking(CSIInstalled)>>, CSIInstalled,
                              r.err, DNSResolves)
             /\ trace' = r.lines
    /\ clusterCalled' = TRUE
    /\ UNCHANGED <<ops, cancelled, cluster, resNameSuffix, storageSnapshotSuccess,
                   storageVolSnapClass, resources, cleanups, step, attempts, result>>

----------------------------------------------------------------------------
(* Ephemeral resources of a run *)

Pod == "Pod"
PersistentVolumeClaim == "PersistentVolumeClaim"
VolumeSnapshot == "VolumeSnapshot"

\* One cluster interaction of a check: op is what it does, kind and prefix
\* name the object, fatal tells whether its failure ends the check.
Step(op, kind, prefix, fatal) ==
    [op |-> op, kind |-> kind, prefix |-> prefix, fatal |-> fatal]

Resource(kind, prefix, suffix) ==
    [kind |-> kind, name |-> ResourceName(prefix, suffix)]

\* Error texts are reduced to the two causes a step can fail for.
StepFailed == "a step of the check failed"
WaitTimedOut == "timed out waiting for the condition"
Pending == "pending"

\* deleteK8sResource that returned nil: the object is gone
DeleteEffect(res, r) == res \ {r}

\* the namespace after step st of the run with suffix uid succeeded
StepEffect(st, uid, res) ==
    IF st.op = "create" THEN res \cup {Resource(st.kind, st.prefix, uid)}
    ELSE IF st.op = "delete" THEN DeleteEffect(res, Resource(st.kind, st.prefix, uid))
    ELSE res

\* what a cluster call or a probe of a wait answers
Probes == {"ok", "notyet", "error"}
WaitOps == {"waitReady", "waitReadyToUse"}

\* waitUntilPodCondition, waitUntilVolSnapReadyToUse: one more probe after n
\* that were not yet done.  A done probe ends the wait with success, a
\* permanent error ends it with that error, the last probe of the budget
\* ends it with a timeout; otherwise the wait goes on.
Poll(n, probe) ==
    IF probe = "ok" THEN Nil
    ELSE IF probe = "error" THEN StepFailed
    ELSE IF n + 1 >= MaxAttempts THEN WaitTimedOut
    ELSE Pending

\* the calls that are handed ctx: clientSet / runtimeClient Create and Get,
\* waitUntilPodCondition, deleteK8sResource.  GetServerPreferredVersionForGroup,
\* waitUntilVolSnapReadyToUse and execInPod are not handed it.
CtxOps == {"create", "waitReady", "get", "delete"}
ContextCanceled == "context canceled"

\* the error of step st (Nil: none), or Pending while its wait goes on; a
\* call handed a cancelled ctx returns the error of the ctx
StepResult(st, n, probe, ctxDone) ==
    IF ctxDone /\ st.op \in CtxOps THEN ContextCanceled
    ELSE IF st.op \in WaitOps THEN Poll(n, probe)
    ELSE IF probe = "ok" THEN Nil
    ELSE StepFailed

\* the entry of trace for step st that ended with e
Done(st, e) == [op |-> st.op, kind |-> st.kind, prefix |-> st.prefix, err |-> e]

----------------------------------------------------------------------------
(* checkDNSResolution *)

MutDNSStepsDeleteBeforeExec ==
    <<Step("create", Pod, "dnsPodNamePrefix", TRUE),
      Step("waitReady", Pod, "dnsPodNamePrefix", TRUE),
      Step("get", Pod, "dnsPodNamePrefix", TRUE),
      Step("delete", Pod, "dnsPodNamePrefix", FALSE),
      Step("exec", Pod, "dnsPodNamePrefix", TRUE)>>

DNSSteps ==
    <<Step("create", Pod, "dnsPodNamePrefix", TRUE),
      Step("waitReady", Pod, "dnsPodNamePrefix", TRUE),
      Step("get", Pod, "dnsPodNamePrefix", TRUE),
      Step("exec", Pod, "dnsPodNamePrefix", TRUE),
      Step("delete", Pod, "dnsPodNamePrefix", FALSE)>>

MutCheckStepGoOn(c, steps, next) ==
    \E probe \in Probes :
      LET k == step + 1
          st == steps[k]
          lg == IF k = 1 THEN logs \o <<Checking(c)>> ELSE logs
          tr == IF k = 1 THEN <<>> ELSE trace
          e == StepResult(st, attempts, probe, cancelled)
      IN  IF e = Pending
          THEN /\ attempts' = attempts + 1
               /\ logs' = lg
               /\ trace' = tr
               /\ UNCHANGED <<pc, preflightStatus, err, resources, step>>
          ELSE /\ attempts' = 0
               /\ trace' = Append(tr, Done(st, e))
               /\ resources' = IF e = Nil THEN StepEffect(st, resNameSuffix, resources)
                                ELSE resources
               /\ IF k = Len(steps)
                  THEN /\ RecordOutcome(lg, c, e, next)
                       /\ step' = 0
                  ELSE /\ logs' = lg
                       /\ step' = k
                       /\ UNCHANGED <<pc, preflightStatus, err>>

\* One step of the check c whose steps are steps; when the check returns,
\* its outcome is recorded and control passes to next.
CheckStep(c, steps, next) ==
    \E probe \in Probes :
      LET k == step + 1
          st == steps[k]
          lg == IF k = 1 THEN logs \o <<Checking(c)>> ELSE logs
          tr == IF k = 1 THEN <<>> ELSE trace
          e == StepResult(st, attempts, probe, cancelled)
      IN  IF e = Pending
          THEN /\ attempts' = attempts + 1
               /\ logs' = lg
               /\ trace' = tr
               /\ UNCHANGED <<pc, preflightStatus, err, resources, step>>
          ELSE /\ attempts' = 0
               /\ trace' = Append(tr, Done(st, e))
               /\ resources' = IF e = Nil THEN StepEffect(st, resNameSuffix, resources)
                                ELSE resources
               /\ IF e # Nil /\ st.fatal
                  THEN /\ RecordOutcome(lg, c, e, next)
                       /\ step' = 0
                  ELSE IF k = Len(steps)
                       THEN /\ RecordOutcome(lg, c, Nil, next)
                            /\ step' = 0
                  ELSE /\ logs' = lg
                       /\ step' = k
                       /\ UNCHANGED <<pc, preflightStatus, err>>

CheckDNSResolution ==
    /\ pc = DNSResolves
    /\ CheckStep(DNSResolves, DNSSteps, VolumeSnapshotRoundTrip)
    /\ clusterCalled' = TRUE
    /\ UNCHANGED <<ops, cancelled, cluster, resNameSuffix, storageSnapshotSuccess,
                   storageVolSnapClass, cleanups, result>>

----------------------------------------------------------------------------
(* checkVolumeSnapshot *)

createSourcePodAndPVCSteps ==
    <<Step("create", PersistentVolumeClaim, "SourcePvcNamePrefix", TRUE),
      Step("create", Pod, "SourcePodNamePrefix", TRUE),
      Step("waitReady", Pod, "SourcePodNamePrefix", TRUE),
      Step("get", Pod, "SourcePodNamePrefix", TRUE)>>

createSnapshotFromPVCSteps(volSnapPrefix) ==
    <<Step("preferredVersion", VolumeSnapshot, volSnapPrefix, TRUE),
      Step("create", VolumeSnapshot, volSnapPrefix, TRUE),
      Step("waitReadyToUse", VolumeSnapshot, volSnapPrefix, TRUE)>>

createRestorePodFromSnapshotSteps(pvcPrefix, podPrefix) ==
    <<Step("create", PersistentVolumeClaim, pvcPrefix, TRUE),
      Step("create", Pod, podPrefix, TRUE),
      Step("waitReady", Pod, podPrefix, TRUE),
      Step("get", Pod, podPrefix, TRUE)>>

MutCheckVolumeSnapshotStepsKeepSourcePod ==
    createSourcePodAndPVCSteps
    \o createSnapshotFromPVCSteps("VolumeSnapSrcNamePrefix")
    \o createRestorePodFromSnapshotSteps("RestorePvcNamePrefix", "RestorePodNamePrefix")
    \o <<Step("exec", Pod, "RestorePodNamePrefix", TRUE),
         Step("get", Pod, "SourcePodNamePrefix", TRUE)>>
    \o createSnapshotFromPVCSteps("UnmountedVolumeSnapSrcNamePrefix")
    \o <<Step("delete", Pod, "SourcePodNamePrefix", TRUE)>>
    \o createRestorePodFromSnapshotSteps("UnmountedRestorePvcNamePrefix",
                                         "UnmountedRestorePodNamePrefix")
    \o <<Step("exec", Pod, "UnmountedRestorePodNamePrefix", TRUE)>>

MutCheckVolumeSnapshotStepsDeleteTolerated ==
    createSourcePodAndPVCSteps
    \o createSnapshotFromPVCSteps("VolumeSnapSrcNamePrefix")
    \o createRestorePodFromSnapshotSteps("RestorePvcNamePrefix", "RestorePodNamePrefix")
    \o <<Step("exec", Pod, "RestorePodNamePrefix", TRUE),
         Step("get", Pod, "SourcePodNamePrefix", TRUE),
         Step("delete", Pod, "SourcePodNamePrefix", FALSE)>>
    \o createSnapshotFromPVCSteps("UnmountedVolumeSnapSrcNamePrefix")
    \o createRestorePodFromSnapshotSteps("UnmountedRestorePvcNamePrefix",
                                         "UnmountedRestorePodNamePrefix")
    \o <<Step("exec", Pod, "UnmountedRestorePodNamePrefix", TRUE)>>

checkVolumeSnapshotSteps ==
    createSourcePodAndPVCSteps
    \o createSnapshotFromPVCSteps("VolumeSnapSrcNamePrefix")
    \o createRestorePodFromSnapshotSteps("RestorePvcNamePrefix", "RestorePodNamePrefix")
    \o <<Step("exec", Pod, "RestorePodNamePrefix", TRUE),
         Step("get", Pod, "SourcePodNamePrefix", TRUE),
         Step("delete", Pod, "SourcePodNamePrefix", TRUE)>>
    \o createSnapshotFromPVCSteps("UnmountedVolumeSnapSrcNamePrefix")
    \o createRestorePodFromSnapshotSteps("UnmountedRestorePvcNamePrefix",
                                         "UnmountedRestorePodNamePrefix")
    \o <<Step("exec", Pod, "UnmountedRestorePodNamePrefix", TRUE)>>

MutRunVolumeSnapshotAlways(success) == TRUE

\* the condition of "if storageSnapshotSuccess" before checkVolumeSnapshot
RunVolumeSnapshot(success) == success

CheckVolumeSnapshot ==
    /\ pc = VolumeSnapshotRoundTrip
    /\ RunVolumeSnapshot(storageSnapshotSuccess)
    /\ CheckStep(VolumeSnapshotRoundTrip, checkVolumeSnapshotSteps, "Finish")
    /\ clusterCalled' = TRUE
    /\ UNCHANGED <<ops, cancelled, cluster, resNameSuffix, storageSnapshotSuccess,
                   storageVolSnapClass, cleanups, result>>

\* the else branch: "Skipping volume snapshot and restore check ..."
SkipVolumeSnapshot ==
    /\ pc = VolumeSnapshotRoundTrip
    /\ ~RunVolumeSnapshot(storageSnapshotSuccess)
    /\ logs' = logs \o <<Skipping(VolumeSnapshotRoundTrip)>>
    /\ pc' = "Finish"
    /\ UNCHANGED <<ops, cancelled, cluster, resNameSuffix, preflightStatus, err,
                   storageSnapshotSuccess, storageVolSnapClass, resources,
                   cleanups, clusterCalled, step, attempts, trace, result>>

----------------------------------------------------------------------------
(* Cleanup and the verdict *)

\* the resources whose name carries the suffix uid
ResourcesOf(uid, res) ==
    {r \in res : SubSeq(r.name, 2, Len(r.name)) = uid}

\* Cleanup.CleanupPreflightResources: deletes the resources of co.UID; every
\* deletion is attempted, one that fails leaves its object and makes the call
\* return an error.  kept: the objects whose deletion failed.
CleanupOutcomes(uid, res) ==
    LET mine == ResourcesOf(uid, res)
    IN  {[resources |-> res \ (mine \ kept), err |-> IF kept = {} THEN Nil ELSE "cleanup failed"] :
            kept \in {{}} \cup {{r} : r \in mine} \cup {mine}}

SomeChecksFailed == "some preflight checks failed. Check logs for more details"

MutShouldCleanupAlways(status, cleanupOnFail) == TRUE
MutShouldCleanupOnSuccess(status, cleanupOnFail) == status
\* "if preflightStatus || o.PerformCleanupOnFail"
ShouldCleanup(status, cleanupOnFail) == status \/ cleanupOnFail

MutVerdictCleanupError(status, cleanupErr) ==
    IF ~status THEN SomeChecksFailed
    ELSE IF cleanupErr # Nil THEN cleanupErr
    ELSE Nil

\* the value PerformPreflightChecks returns after the cleanup returned cleanupErr
Verdict(status, cleanupErr) ==
    IF ~status THEN SomeChecksFailed ELSE Nil

MutCleanupUIDFresh(uid) == [i \in 1..Len(uid) |-> letterBytes[1]]

\* CleanupOptions.UID of the Cleanup value co
CleanupUID(uid) == uid

\* PerformPreflightChecks from "co := &Cleanup{...}" to its return
Finish ==
    /\ pc = "Finish"
    /\ IF ShouldCleanup(preflightStatus, ops.PerformCleanupOnFail)
       THEN \E out \in CleanupOutcomes(CleanupUID(resNameSuffix), resources) :
              /\ cleanups' = Append(cleanups, CleanupUID(resNameSuffix))
              /\ resources' = out.resources
              /\ logs' = IF out.err # Nil THEN Append(logs, CleanupFailedLine) ELSE logs
              /\ err' = out.err
              /\ result' = Verdict(preflightStatus, out.err)
              /\ clusterCalled' = TRUE
       ELSE /\ result' = Verdict(preflightStatus, err)
            /\ UNCHANGED <<cleanups, resources, logs, err, clusterCalled>>
    /\ pc' = "exited"
    /\ UNCHANGED <<ops, cancelled, cluster, resNameSuffix, preflightStatus,
                   storageSnapshotSuccess, storageVolSnapClass, step, attempts, trace>>

----------------------------------------------------------------------------
(* The run command as a whole *)

\* the clusters a full run of the command is explored on: the storage class
\* absent or present, with no volume snapshot class, one of its provisioner
\* or one of another driver
PlainVssc(driver) ==
    [name |-> VsscName(1), driver |-> driver, annotations |-> {}, fields |-> {}]
RunClusters ==
    [provisioner : {NotFound, "csi.example.com"},
     vsscList : {<<>>, <<PlainVssc("csi.example.com")>>, <<PlainVssc("other.example.com")>>},
     groups : {RbacGroups}]

InitWith(clusters) ==
    /\ ops \in RunOptions
    /\ cluster \in clusters
    /\ pc = "RunE"
    /\ logs = <<>>
    /\ resNameSuffix = <<>>
    /\ preflightStatus = FALSE
    /\ err = Nil
    /\ storageSnapshotSuccess = FALSE
    /\ storageVolSnapClass = ""
    /\ resources = {}
    /\ cleanups = <<>>
    /\ clusterCalled = FALSE
    /\ step = 0
    /\ attempts = 0
    /\ trace = <<>>
    /\ cancelled = FALSE
    /\ result = ""

Init == InitWith(RunClusters)

\* a cluster on which the storage class and a matching snapshot class exist
MatchedCluster ==
    [provisioner |-> "csi.example.com", vsscList |-> <<PlainVssc("csi.example.com")>>,
     groups |-> RbacGroups]

\* that cluster with every group list of up to MaxGroups entries
RbacClusters ==
    [provisioner : {"csi.example.com"}, vsscList : {<<PlainVssc("csi.example.com")>>},
     groups : GroupLists]

Next ==
    \/ RunE
    \/ GenerateUID
    \/ CheckKubectl
    \/ CheckClusterAccess
    \/ CheckHelmVersion
    \/ CheckKubernetesVersion
    \/ CheckKubernetesRBAC
    \/ CheckStorageSnapshotClass
    \/ CheckCSI
    \/ CheckDNSResolution
    \/ CheckVolumeSnapshot
    \/ SkipVolumeSnapshot
    \/ Finish

Spec == Init /\ [][Next]_vars

----------------------------------------------------------------------------
(* The storage/snapshot class check on its own: every cluster with up to   *)
(* MaxVssc volume snapshot classes, the run standing before the check.     *)

\* the snapshot classes the run may be configured with: none, one of the
\* listed names, or a name no class has
SscSnapshotClassNames == {"", "vsc1", "vsc2", "absent"}
SscRunOptions ==
    [StorageClass : StorageClassNames, SnapshotClass : SscSnapshotClassNames,
     LocalRegistry : LocalRegistries, ImagePullSecret : ImagePullSecrets,
     PerformCleanupOnFail : BOOLEAN]

\* the UIDs CreateResourceNameSuffix can return
UIDs ==
    {CreateResourceNameSuffix(rs).suffix :
        rs \in {q \in RandStreams : CreateResourceNameSuffix(q).err = Nil}}

AllChecks == FirstEight \o <<VolumeSnapshotRoundTrip>>
IndexOf(c) == CHOOSE i \in 1..Len(AllChecks) : AllChecks[i] = c

\* the log of a run standing before check c in which the checks in failed
\* have failed and the other earlier ones have passed
LogBefore(c, failed) ==
    [i \in 1..(2 * (IndexOf(c) - 1)) |->
        IF i % 2 = 1 THEN Checking(AllChecks[(i + 1) \div 2])
        ELSE IF AllChecks[i \div 2] \in failed THEN Failed(AllChecks[i \div 2])
        ELSE Successful(AllChecks[i \div 2])]

\* A run standing before check c, the check before c having passed with the
\* trace tr: the options passed RunE, failed (one of failedSets) are the
\* checks that have failed.
InitBefore(c, opts, clusters, failedSets, tr) ==
    /\ ops \in {o \in opts : RunEValidate(o) = Nil}
    /\ cluster \in clusters
    /\ pc = c
    /\ \E failed \in failedSets :
         /\ logs = LogBefore(c, failed)
         /\ preflightStatus = (failed = {})
         /\ storageSnapshotSuccess = (StorageSnapshotClassMatch \notin failed)
    /\ resNameSuffix \in UIDs
    /\ err = Nil
    /\ cleanups = <<>>
    /\ clusterCalled = TRUE
    /\ step = 0
    /\ attempts = 0
    /\ trace = tr
    /\ cancelled = FALSE
    /\ result = ""

InitSSC ==
    /\ InitBefore(StorageSnapshotClassMatch, SscRunOptions, Clusters(MaxVssc),
                  {{}, {KubectlPresent}}, <<>>)
    /\ storageVolSnapClass = ""
    /\ resources = {}

NextSSC == CheckStorageSnapshotClass

SpecSSC == InitSSC /\ [][NextSSC]_vars

----------------------------------------------------------------------------
(* The whole command on one cluster, the storage class and a matching      *)
(* volume snapshot class present, run without registry, pull secret and    *)
(* snapshot class options.                                                 *)

InitRun ==
    /\ InitWith({MatchedCluster})
    /\ ops.SnapshotClass = ""
    /\ ops.LocalRegistry = ""
    /\ ops.ImagePullSecret = ""

SpecRun == InitRun /\ [][Next]_vars

\* the thread of control is always scheduled
SpecRunFair == SpecRun /\ WF_vars(Next)

----------------------------------------------------------------------------
(* PerformPreflightChecks drawing its UID, on its own *)

InitUID ==
    /\ ops \in {o \in RunOptions : RunEValidate(o) = Nil}
    /\ cluster \in RunClusters
    /\ pc = "PerformPreflightChecks"
    /\ logs = <<>>
    /\ resNameSuffix = <<>>
    /\ preflightStatus = FALSE
    /\ err = Nil
    /\ storageSnapshotSuccess = FALSE
    /\ storageVolSnapClass = ""
    /\ resources = {}
    /\ cleanups = <<>>
    /\ clusterCalled = SetupCallsCluster
    /\ step = 0
    /\ attempts = 0
    /\ trace = <<>>
    /\ cancelled = FALSE
    /\ result = ""

NextUID == GenerateUID

SpecUID == InitUID /\ [][NextUID]_vars

----------------------------------------------------------------------------
(* The RBAC check on its own, on servers with every group list *)

InitRBAC ==
    /\ InitBefore(RBACEnabled, RunOptions, RbacClusters, {{}, {KubectlPresent}}, <<>>)
    /\ storageVolSnapClass = ""
    /\ resources = {}

NextRBAC == CheckKubernetesRBAC

SpecRBAC == InitRBAC /\ [][NextRBAC]_vars

----------------------------------------------------------------------------
(* The helm check and the CSI check on their own *)

InitHelm ==
    /\ InitBefore(HelmVersionOK, RunOptions, RunClusters, {{}, {KubectlPresent}}, <<>>)
    /\ storageVolSnapClass = ""
    /\ resources = {}

NextHelm == CheckHelmVersion

SpecHelm == InitHelm /\ [][NextHelm]_vars

InitCSI ==
    /\ InitBefore(CSIInstalled, RunOptions, {MatchedCluster},
                  {{}, {KubectlPresent}}, <<>>)
    /\ storageVolSnapClass = IF ops.SnapshotClass = "" THEN VsscName(1)
                             ELSE ops.SnapshotClass
    /\ resources = {}

NextCSI == CheckCSI

SpecCSI == InitCSI /\ [][NextCSI]_vars

----------------------------------------------------------------------------
(* The end of a run: the volume snapshot check, cleanup and verdict, in a  *)
(* namespace another run may have left its objects in.                     *)

\* objects of a run with suffix uid that was ended without cleanup
OtherRunResources(uid) ==
    {Resource(PersistentVolumeClaim, "SourcePvcNamePrefix", uid),
     Resource(Pod, "SourcePodNamePrefix", uid),
     Resource(VolumeSnapshot, "VolumeSnapSrcNamePrefix", uid)}

\* the trace of a DNS check that passed and deleted its pod
DNSPassedTrace == [i \in 1..Len(DNSSteps) |-> Done(DNSSteps[i], Nil)]

InitTail ==
    /\ InitBefore(VolumeSnapshotRoundTrip, RunOptions, {MatchedCluster},
                  {{}, {KubectlPresent}, {StorageSnapshotClassMatch}}, DNSPassedTrace)
    /\ storageVolSnapClass = IF storageSnapshotSuccess /\ ops.SnapshotClass = ""
                             THEN VsscName(1)
                             ELSE ops.SnapshotClass
    /\ resources \in {{}} \cup {OtherRunResources(u) : u \in UIDs \ {resNameSuffix}}

NextTail ==
    \/ CheckVolumeSnapshot
    \/ SkipVolumeSnapshot
    \/ Finish

SpecTail == InitTail /\ [][NextTail]_vars

\* the thread of control is always scheduled
SpecTailFair == SpecTail /\ WF_vars(NextTail)

----------------------------------------------------------------------------
(* The end of a run whose caller cancels the ctx it handed to              *)
(* PerformPreflightChecks (RunE hands it context.Background(), which is    *)
(* never cancelled).                                                       *)

Cancel ==
    /\ pc # "exited"
    /\ ~cancelled
    /\ cancelled' = TRUE
    /\ UNCHANGED <<ops, cluster, pc, logs, resNameSuffix, preflightStatus, err,
                   storageSnapshotSuccess, storageVolSnapClass, resources, cleanups,
                   clusterCalled, step, attempts, trace, result>>

NextCancel ==
    \/ NextTail
    \/ Cancel

SpecCancel == InitTail /\ [][NextCancel]_vars

----------------------------------------------------------------------------
(* Reading the log and the namespace *)

NineChecks ==
    {FirstEight[i] : i \in 1..Len(FirstEight)} \cup {VolumeSnapshotRoundTrip}

Logged(line) == \E i \in 1..Len(logs) : logs[i] = line
Executed(c) == Logged(Checking(c))
Passed(c) == Logged(Successful(c))
HasFailed(c) == Logged(Failed(c))
Skipped(c) == Logged(Skipping(c))

AllPassed == \A c \in NineChecks : Executed(c) /\ Passed(c)

\* the run got its UID
UIDObtained == Len(resNameSuffix) = SuffixLen
\* PerformPreflightChecks has returned in a run that got its UID
ReturnedWithUID == pc = "exited" /\ UIDObtained /\ result \notin Fatals

\* the objects checkVolumeSnapshot can create for suffix uid
RoundTripResources(uid) ==
    {Resource(checkVolumeSnapshotSteps[k].kind, checkVolumeSnapshotSteps[k].prefix, uid) :
        k \in {j \in 1..Len(checkVolumeSnapshotSteps) :
                  checkVolumeSnapshotSteps[j].op = "create"}}

----------------------------------------------------------------------------
(* C1..C10 *)

\* C1: once the run has its UID, PerformPreflightChecks returns nil exactly
\* when every one of the nine checks was executed and passed; a failed check,
\* or a skipped VolumeSnapshotRoundTrip, makes it return the error.
C1_VerdictIsAllPassed ==
    ReturnedWithUID =>
        /\ result = Nil <=> AllPassed
        /\ (\E c \in NineChecks : HasFailed(c)) => result = SomeChecksFailed
        /\ Skipped(VolumeSnapshotRoundTrip) => result = SomeChecksFailed
        /\ result \in {Nil, SomeChecksFailed}

C1_Witness == ReturnedWithUID /\ AllPassed /\ result = Nil

\* C2: the log of the first eight checks is, in this order and without
\* interleaving, the "checking" line of each followed by its own outcome
\* line, and a run that got its UID has all sixteen lines whatever the
\* outcomes were.
C2_EightChecksInOrder ==
    /\ \A i \in 1..Len(logs) :
         IF i <= 2 * Len(FirstEight)
         THEN IF i % 2 = 1
              THEN logs[i] = Checking(FirstEight[(i + 1) \div 2])
              ELSE logs[i] \in {Successful(FirstEight[i \div 2]), Failed(FirstEight[i \div 2])}
         ELSE \A k \in 1..Len(FirstEight) :
                logs[i] \notin {Checking(FirstEight[k]), Successful(FirstEight[k]),
                                Failed(FirstEight[k])}
    /\ ReturnedWithUID => Len(logs) >= 2 * Len(FirstEight)
    /\ \A k \in 1..Len(FirstEight) :
         (pc = FirstEight[k] /\ step = 0) => Len(logs) = 2 * (k - 1)

C2_Witness ==
    /\ ReturnedWithUID
    /\ HasFailed(KubectlPresent)
    /\ HasFailed(RBACEnabled)
    /\ Executed(DNSResolves)

\* C3: VolumeSnapshotRoundTrip is executed exactly when
\* StorageSnapshotClassMatch passed; while it has not been executed no
\* round-trip object exists, and a run that skipped it returns the error.
C3_RoundTripIffSnapshotClass ==
    /\ (pc = "Finish" \/ ReturnedWithUID) =>
          /\ Executed(VolumeSnapshotRoundTrip) <=> Passed(StorageSnapshotClassMatch)
          /\ Skipped(VolumeSnapshotRoundTrip) <=> ~Executed(VolumeSnapshotRoundTrip)
    /\ ~Executed(VolumeSnapshotRoundTrip) =>
          resources \cap RoundTripResources(resNameSuffix) = {}
    /\ (ReturnedWithUID /\ Skipped(VolumeSnapshotRoundTrip)) => result = SomeChecksFailed

C3_Witness ==
    /\ ReturnedWithUID
    /\ Skipped(VolumeSnapshotRoundTrip)
    /\ \A c \in NineChecks \ {StorageSnapshotClassMatch, VolumeSnapshotRoundTrip} : Passed(c)

\* C4: cleanup is invoked in a returned run exactly when all checks passed or
\* cleanup-on-failure is set, and never before the last check; the step that
\* ends a failed run without cleanup-on-failure leaves the namespace as the
\* checks left it.
C4_CleanupDecision ==
    /\ [](ReturnedWithUID =>
            (cleanups # <<>> <=> (AllPassed \/ ops.PerformCleanupOnFail)))
    /\ [](pc # "exited" => cleanups = <<>>)
    /\ [][(pc = "Finish" /\ ~AllPassed /\ ~ops.PerformCleanupOnFail) =>
            (resources' = resources /\ cleanups' = cleanups)]_vars

C4_Witness ==
    /\ ReturnedWithUID
    /\ ~AllPassed
    /\ ~ops.PerformCleanupOnFail
    /\ cleanups = <<>>
    /\ resources # {}

\* C5: when cleanup was invoked, whether it returned an error or not, the
\* run returns nil if all checks passed and the "some preflight checks
\* failed" error otherwise.
C5_CleanupErrorKeepsVerdict ==
    (pc = "exited" /\ cleanups # <<>>) =>
        /\ AllPassed => result = Nil
        /\ ~AllPassed => result = SomeChecksFailed

C5_Witness ==
    /\ pc = "exited"
    /\ AllPassed
    /\ Logged(CleanupFailedLine)
    /\ err # Nil
    /\ result = Nil

\* C6: cleanup is invoked at most once, only after the last check has
\* finished (VolumeSnapshotRoundTrip returned or was skipped), and with the
\* UID of the run, which is the suffix of every object in the namespace.
C6_CleanupOnceWithRunUID ==
    /\ Len(cleanups) <= 1
    /\ cleanups # <<>> =>
          /\ pc = "exited"
          /\ cleanups[1] = resNameSuffix
          /\ \/ Passed(VolumeSnapshotRoundTrip)
             \/ HasFailed(VolumeSnapshotRoundTrip)
             \/ Skipped(VolumeSnapshotRoundTrip)
    /\ \A r \in resources : SubSeq(r.name, 2, Len(r.name)) = resNameSuffix

C6_Witness ==
    /\ cleanups # <<>>
    /\ HasFailed(VolumeSnapshotRoundTrip)
    /\ resources # {}
    /\ resNameSuffix[1] # letterBytes[1]

C8_PullSecretNeedsRegistry ==
    /\ (ops.ImagePullSecret # "" /\ ops.LocalRegistry = "") =>
          /\ pc \in {"RunE", "exited"}
          /\ pc = "exited" => result \in Fatals
          /\ logs = <<>>
    /\ (ops.ImagePullSecret = "" /\ ops.LocalRegistry # "" /\ ops.StorageClass # ""
        /\ pc = "exited") =>
          result \in {SetupFatal, UIDError, Nil, SomeChecksFailed}

C8_Witness ==
    /\ ops.ImagePullSecret # ""
    /\ ops.LocalRegistry = ""
    /\ ops.StorageClass # ""
    /\ pc = "exited"
    /\ result = PullSecretFatal

\* C9: a run whose UID generation failed has returned that error at once: no
\* check was executed, no object created and cleanup not invoked; and
\* CreateResourceNameSuffix fails exactly when a rand.Int call fails.
C9_UIDFailureReturnsAtOnce ==
    /\ (pc \notin {"RunE", "PerformPreflightChecks"} /\ result \notin Fatals /\ ~UIDObtained) =>
          /\ pc = "exited"
          /\ result = UIDError
          /\ err = UIDError
          /\ logs = <<>>
          /\ resources = {}
          /\ cleanups = <<>>
    /\ \A rs \in RandStreams :
          CreateResourceNameSuffix(rs).err # Nil <=> \E i \in 1..SuffixLen : rs[i] = RandErr

C9_Witness == pc = "exited" /\ result = UIDError /\ ~UIDObtained

\* the errors of checkStorageSnapshotClass that are a failed cluster call
ApiErrors ==
    {"Get storageclass failed", "GetServerPreferredVersionForGroup failed",
     "List failed", "Get failed"}

\* a class counts as flagged default if it carries the is-default-class
\* annotation or has the key as a top-level field
MarkedDefault(vssc) ==
    FlaggedDefault(vssc) \/ ObjectFieldIsTrue(vssc, IsDefaultClassKey)

MatchingDefaults ==
    {k \in 1..Len(cluster.vsscList) :
        /\ cluster.vsscList[k].driver = cluster.provisioner
        /\ MarkedDefault(cluster.vsscList[k])}

\* C10: with no snapshot class configured and a matching class flagged as
\* the cluster default, checkStorageSnapshotClass succeeds (unless a cluster
\* call fails) and storageVolSnapClass is the name of a matching class that
\* is flagged default.
C10_DefaultClassRecorded ==
    (/\ pc = CSIInstalled
     /\ ops.SnapshotClass = ""
     /\ cluster.provisioner # NotFound
     /\ \E k \in MatchingDefaults : FlaggedDefault(cluster.vsscList[k])) =>
        /\ err \in {Nil} \cup ApiErrors
        /\ err = Nil =>
             \E k \in MatchingDefaults : cluster.vsscList[k].name = storageVolSnapClass

\* the listed classes whose driver is the storage class's provisioner
Matching ==
    {k \in 1..Len(cluster.vsscList) :
        cluster.vsscList[k].driver = cluster.provisioner}

\* checkStorageSnapshotClass has returned, the storage class was found and
\* no cluster call failed
SscDecided ==
    /\ pc = CSIInstalled
    /\ cluster.provisioner # NotFound
    /\ err \notin ApiErrors

\* C11: with no snapshot class configured, several matching classes and none
\* of them flagged default, the class selected is the first match in list
\* order.
C11_FirstMatchSelected ==
    (/\ SscDecided
     /\ ops.SnapshotClass = ""
     /\ Cardinality(Matching) >= 2
     /\ \A k \in Matching : ~MarkedDefault(cluster.vsscList[k])) =>
        /\ err = Nil
        /\ storageVolSnapClass =
             cluster.vsscList[CHOOSE k \in Matching : \A h \in Matching : k <= h].name

\* C12: with no snapshot class configured, the storage class found and the
\* list obtained, checkStorageSnapshotClass fails exactly when no listed
\* class has the provisioner as driver (an empty list included), and a
\* class it selects has the provisioner as driver.
C12_FailsIffNoMatch ==
    (SscDecided /\ ops.SnapshotClass = "") =>
        /\ err # Nil <=> Matching = {}
        /\ err = Nil => \E k \in Matching : cluster.vsscList[k].name = storageVolSnapClass
        /\ storageSnapshotSuccess <=> err = Nil

C12_Witness ==
    /\ SscDecided
    /\ ops.SnapshotClass = ""
    /\ err = Nil
    /\ Matching # {}
    /\ \E k \in 1..Len(cluster.vsscList) : k \notin Matching

\* the configured class is on the cluster
ConfiguredClassExists ==
    \E k \in 1..Len(cluster.vsscList) : cluster.vsscList[k].name = ops.SnapshotClass

\* C13: with a configured snapshot class that exists, and the storage class
\* found, checkStorageSnapshotClass succeeds exactly when the class's driver
\* is the provisioner; on a mismatch the error is the driver-mismatch error
\* for that class name; storageVolSnapClass is the configured class in
\* either case.
C13_ConfiguredClassDriverMustMatch ==
    (SscDecided /\ ops.SnapshotClass # "" /\ ConfiguredClassExists) =>
        LET k == CHOOSE j \in 1..Len(cluster.vsscList) :
                    cluster.vsscList[j].name = ops.SnapshotClass
        IN  /\ err = Nil <=> k \in Matching
            /\ k \notin Matching => err = DriverMismatch(ops.SnapshotClass)
            /\ storageVolSnapClass = ops.SnapshotClass
            /\ DriverMismatch("vsc1") # DriverMismatch("vsc2")

C13_Witness ==
    /\ SscDecided
    /\ ops.SnapshotClass = "vsc2"
    /\ ConfiguredClassExists
    /\ err = DriverMismatch("vsc2")
    /\ Matching # {}

----------------------------------------------------------------------------
(* C14..C20 *)

\* checkCSI has returned
CsiReturned == pc = DNSResolves /\ step = 0

\* every lookup of checkCSI answered found or not found
CsiLookupsAnswered == err \notin {CsiPrefVersionFailed, CsiGetFailed}

\* C14: checkCSI passes only if it found every name of CsiApis; when every
\* lookup answers found or not found it examines all the names in order, a
\* missing one not ending the loop, logs a "Not found" line for each missing
\* name, and fails exactly when one is missing.
C14_EveryCsiApiExamined ==
    CsiReturned =>
        /\ err = Nil =>
             trace = [i \in 1..Len(CsiApis) |-> FoundCsiApi(CsiApis[i])]
        /\ CsiLookupsAnswered =>
             /\ Len(trace) = Len(CsiApis)
             /\ \A i \in 1..Len(CsiApis) :
                  trace[i] \in {FoundCsiApi(CsiApis[i]), NotFoundCsiApi(CsiApis[i])}
             /\ err # Nil <=> \E i \in 1..Len(CsiApis) : trace[i] = NotFoundCsiApi(CsiApis[i])
             /\ err # Nil => err = CsiApisNotFound
        /\ (preflightStatus => err = Nil) /\ (HasFailed(CSIInstalled) <=> err # Nil)

C14_Witness ==
    /\ CsiReturned
    /\ err = CsiApisNotFound
    /\ trace = <<NotFoundCsiApi(CsiApis[1]), FoundCsiApi(CsiApis[2]),
                 NotFoundCsiApi(CsiApis[3])>>

DNSPod == Resource(Pod, "dnsPodNamePrefix", resNameSuffix)

\* trace is that of checkDNSResolution
InDNSTrace == Executed(DNSResolves) /\ ~Executed(VolumeSnapshotRoundTrip)
\* checkDNSResolution has returned and no later check has begun
DNSReturned == InDNSTrace /\ pc = VolumeSnapshotRoundTrip

\* entry i of trace is a call op on the DNS pod
DNSCall(i, op) == trace[i].op = op /\ trace[i].prefix = "dnsPodNamePrefix"

\* C15: checkDNSResolution issues the delete of the DNS pod only after the
\* lookup run in the pod has succeeded; when it fails after the pod was
\* created (the pod never Ready, the re-fetch failing, the lookup failing)
\* it returns the error without having issued a delete, and the pod exists
\* when it returns.
C15_DNSPodDeletedOnlyAfterLookup ==
    InDNSTrace =>
        /\ \A i \in 1..Len(trace) :
             DNSCall(i, "delete") =>
                \E j \in 1..(i - 1) : DNSCall(j, "exec") /\ trace[j].err = Nil
        /\ (DNSReturned /\ err # Nil /\ Len(trace) > 1) =>
             /\ \A i \in 1..Len(trace) : ~DNSCall(i, "delete")
             /\ DNSPod \in resources
        /\ (cleanups = <<>> /\ DNSPod \notin resources /\ Len(trace) > 1) =>
             \E i \in 1..Len(trace) : DNSCall(i, "delete") /\ trace[i].err = Nil

C15_Witness ==
    /\ DNSReturned
    /\ err # Nil
    /\ Len(trace) = 4
    /\ DNSCall(4, "exec")
    /\ DNSPod \in resources

SourcePod == Resource(Pod, "SourcePodNamePrefix", resNameSuffix)
UnmountedSnapshot ==
    Resource(VolumeSnapshot, "UnmountedVolumeSnapSrcNamePrefix", resNameSuffix)

RoundTripOrder ==
    <<<<"create", "SourcePvcNamePrefix">>, <<"create", "SourcePodNamePrefix">>,
      <<"waitReady", "SourcePodNamePrefix">>,
      <<"create", "VolumeSnapSrcNamePrefix">>, <<"waitReadyToUse", "VolumeSnapSrcNamePrefix">>,
      <<"create", "RestorePvcNamePrefix">>, <<"create", "RestorePodNamePrefix">>,
      <<"waitReady", "RestorePodNamePrefix">>, <<"exec", "RestorePodNamePrefix">>,
      <<"delete", "SourcePodNamePrefix">>,
      <<"create", "UnmountedVolumeSnapSrcNamePrefix">>,
      <<"waitReadyToUse", "UnmountedVolumeSnapSrcNamePrefix">>,
      <<"create", "UnmountedRestorePvcNamePrefix">>,
      <<"create", "UnmountedRestorePodNamePrefix">>,
      <<"waitReady", "UnmountedRestorePodNamePrefix">>,
      <<"exec", "UnmountedRestorePodNamePrefix">>>>

\* the calls of trace that create, await, verify or delete, as op and prefix
Performed ==
    LET keep(e) == e.op \in {"create", "waitReady", "waitReadyToUse", "exec", "delete"}
        F[i \in 0..Len(trace)] ==
            IF i = 0 THEN <<>>
            ELSE IF keep(trace[i]) THEN Append(F[i - 1], <<trace[i].op, trace[i].prefix>>)
            ELSE F[i - 1]
    IN  F[Len(trace)]

\* C17: the steps VolumeSnapshotRoundTrip has performed are an initial part
\* of the fixed order; only the last of them can have failed, and a failed
\* step ends the check: the check is recorded as failed, no further step is
\* performed, and control goes on to the cleanup decision and the verdict.
C17_RoundTripStepsInOrder ==
    /\ [](Executed(VolumeSnapshotRoundTrip) =>
            /\ Len(Performed) <= Len(RoundTripOrder)
            /\ Performed = SubSeq(RoundTripOrder, 1, Len(Performed))
            /\ \A i \in 1..(Len(trace) - 1) : trace[i].err = Nil
            /\ (trace # <<>> /\ trace[Len(trace)].err # Nil) =>
                  pc \in {"Finish", "exited"} /\ HasFailed(VolumeSnapshotRoundTrip)
            /\ Passed(VolumeSnapshotRoundTrip) => Performed = RoundTripOrder
            /\ pc = "exited" =>
                  /\ HasFailed(VolumeSnapshotRoundTrip) \/ Passed(VolumeSnapshotRoundTrip)
                  /\ HasFailed(VolumeSnapshotRoundTrip) => result = SomeChecksFailed)
    /\ [][(pc = VolumeSnapshotRoundTrip /\ pc' # pc) => pc' = "Finish"]_vars
    /\ [][(pc = "Finish" /\ Executed(VolumeSnapshotRoundTrip)) =>
             (trace' = trace /\ pc' = "exited")]_vars

C17_Witness ==
    /\ pc = "exited"
    /\ HasFailed(VolumeSnapshotRoundTrip)
    /\ Len(Performed) = 9
    /\ trace[Len(trace)].op = "exec"
    /\ trace[Len(trace)].err # Nil

\* checkHelmVersion has returned
HelmReturned == pc = K8sVersionOK

\* C18: on an OpenShift cluster checkHelmVersion returns success, whether or
\* not helm is installed and whatever its version.
C18_HelmPassesOnOpenShift ==
    (HelmReturned /\ trace # <<>> /\ trace[1] = OcpLine) => err = Nil

\* entry i of trace is a wait for a volume snapshot that ran out of probes
SnapshotTimedOut ==
    /\ Executed(VolumeSnapshotRoundTrip)
    /\ trace # <<>>
    /\ trace[Len(trace)].op = "waitReadyToUse"
    /\ trace[Len(trace)].err = WaitTimedOut

\* the check stands in a wait for a volume snapshot
SnapshotAwaited ==
    /\ pc = VolumeSnapshotRoundTrip
    /\ checkVolumeSnapshotSteps[step + 1].op = "waitReadyToUse"

\* C19: a wait for a volume snapshot ends; when it ends because the
\* snapshot was not ready-to-use within the probes of the budget, the check
\* is recorded as failed, the run returns the failure verdict, and cleanup
\* is invoked with the UID of the run when cleanup-on-failure is set.
C19_SnapshotTimeoutEndsInFailure ==
    /\ [](SnapshotAwaited => attempts < MaxAttempts)
    /\ [](SnapshotTimedOut =>
            /\ Passed(StorageSnapshotClassMatch)
            /\ HasFailed(VolumeSnapshotRoundTrip)
            /\ ~preflightStatus
            /\ pc \in {"Finish", "exited"})
    /\ \A n \in 0..(MaxAttempts - 1) :
         (SnapshotAwaited /\ attempts = n) ~> ~(SnapshotAwaited /\ attempts = n)
    /\ SnapshotTimedOut ~>
         (/\ pc = "exited"
          /\ SnapshotTimedOut
          /\ result = SomeChecksFailed
          /\ ops.PerformCleanupOnFail => cleanups = <<resNameSuffix>>)

C19_Witness ==
    /\ pc = "exited"
    /\ SnapshotTimedOut
    /\ ops.PerformCleanupOnFail
    /\ cleanups = <<resNameSuffix>>
    /\ result = SomeChecksFailed

\* the suffix a resource name carries
SuffixOf(r) == SubSeq(r.name, 2, Len(r.name))

\* C20: a step of a run deletes only objects whose name carries the UID of
\* the run: the objects of another run, with a different UID, that share
\* the namespace are still there after the cleanup.
C20_CleanupSparesOtherRuns ==
    [][\A r \in resources : SuffixOf(r) # resNameSuffix => r \in resources']_vars

C20_Witness ==
    /\ pc = "exited"
    /\ cleanups = <<resNameSuffix>>
    /\ \E u \in UIDs \ {resNameSuffix} : OtherRunResources(u) \subseteq resources
    /\ ResourcesOf(resNameSuffix, resources) = {}
    /\ \E i \in 1..Len(trace) : trace[i].op = "create" /\ trace[i].err = Nil

----------------------------------------------------------------------------
(* C21..C28 *)

\* the steps of the checks that create an object
CreateSteps ==
    {DNSSteps[k] : k \in {j \in 1..Len(DNSSteps) : DNSSteps[j].op = "create"}}
    \cup {checkVolumeSnapshotSteps[k] :
             k \in {j \in 1..Len(checkVolumeSnapshotSteps) :
                       checkVolumeSnapshotSteps[j].op = "create"}}

\* entry i of trace is a create that succeeded
Created(i) == trace[i].op = "create" /\ trace[i].err = Nil

\* C21: every object a run has in the namespace is named <prefix> + <UID>
\* with the prefix of one of the create steps and the UID of the run, and
\* the objects of one kind a check has created carry pairwise distinct
\* prefixes, hence distinct names.
C21_NamesArePrefixPlusUID ==
    /\ \A r \in resources :
         /\ Len(r.name) = 1 + SuffixLen
         /\ SuffixOf(r) = resNameSuffix
         /\ \E st \in CreateSteps : st.kind = r.kind /\ r.name = <<st.prefix>> \o resNameSuffix
    /\ \A i, j \in 1..Len(trace) :
         (/\ Executed(DNSResolves)
          /\ i < j /\ Created(i) /\ Created(j) /\ trace[i].kind = trace[j].kind) =>
            /\ trace[i].prefix # trace[j].prefix
            /\ Resource(trace[i].kind, trace[i].prefix, resNameSuffix)
                 # Resource(trace[j].kind, trace[j].prefix, resNameSuffix)
    /\ pc \in {DNSResolves, VolumeSnapshotRoundTrip, "Finish"} =>
         Cardinality(resources) <= Cardinality(CreateSteps)

C21_Witness ==
    /\ pc = "Finish"
    /\ Passed(VolumeSnapshotRoundTrip)
    /\ Cardinality(resources) = Cardinality(CreateSteps) - 1
    /\ DNSPod \in resources
    /\ SourcePod \notin resources

\* PerformPreflightChecks has called CreateResourceNameSuffix
UIDDrawn == pc # "PerformPreflightChecks"

Rank(p) ==
    CASE p = "RunE" -> 0
      [] p = "PerformPreflightChecks" -> 1
      [] p = "Finish" -> Len(AllChecks) + 2
      [] p = "exited" -> Len(AllChecks) + 3
      [] OTHER -> 1 + IndexOf(p)

\* the run has ended in one of the two terminal states
Completed ==
    /\ pc = "exited"
    /\ \/ result = Nil /\ preflightStatus
       \/ result = SomeChecksFailed /\ ~preflightStatus

\* C24: a run that obtained its UID reaches a terminal state, all passed or
\* some failed and never both; until then every step moves control forward
\* in the order of the checks, or within the check at pc to its next call
\* or probe, and a step is always possible.
C24_RunReachesOneTerminalState ==
    /\ (UIDObtained /\ result \notin Fatals) ~> Completed
    /\ [](Completed => ~(result = Nil /\ result = SomeChecksFailed))
    /\ []((pc = "exited" /\ UIDObtained /\ result \notin Fatals) => Completed)
    /\ [](pc # "exited" => ENABLED Next)
    /\ [][/\ Rank(pc') >= Rank(pc)
          /\ pc' = pc => \/ step' = step + 1
                         \/ step' = step /\ attempts' = attempts + 1]_vars
    /\ [][pc = "exited" => UNCHANGED vars]_vars

C24_Witness ==
    /\ Completed
    /\ UIDObtained
    /\ result = SomeChecksFailed
    /\ HasFailed(HelmVersionOK)
    /\ Passed(VolumeSnapshotRoundTrip)

\* checkKubernetesRBAC has returned
RBACReturned == pc = StorageSnapshotClassMatch

\* the RBAC group and version are in the server's group list
RBACListed ==
    \E i \in 1..Len(cluster.groups) :
        /\ cluster.groups[i].ok
        /\ cluster.groups[i].Group = RBACAPIGroup
        /\ cluster.groups[i].Version = RBACAPIVersion

\* every entry of the server's group list parses as a group and a version
GroupsWellFormed == \A i \in 1..Len(cluster.groups) : cluster.groups[i].ok

\* C25: checkKubernetesRBAC returns success only if the RBAC group and
\* version are in the server's group list, and the "not enabled kubernetes
\* RBAC" error when the list was obtained and they are not in it.
C25_RBACPassesOnlyIfListed ==
    RBACReturned =>
        /\ err = Nil => RBACListed
        /\ (trace[1].err = Nil /\ ~RBACListed) => err = RBACNotEnabled

\* C26: after a "group discovery failed" error checkKubernetesRBAC judges
\* the list that was returned: it passes if the RBAC group and version are
\* in it and returns the "not enabled" error if the list is well-formed
\* and they are not; after any other discovery error it returns that error.
C26_GroupDiscoveryFailedIsWarning ==
    RBACReturned =>
        /\ trace[1].err = "GroupDiscoveryFailed" =>
             /\ RBACListed => err = Nil /\ Passed(RBACEnabled)
             /\ (GroupsWellFormed /\ ~RBACListed) => err = RBACNotEnabled
             /\ err \in {Nil, RBACNotEnabled}
        /\ trace[1].err \notin {Nil, "GroupDiscoveryFailed"} =>
             /\ err = trace[1].err
             /\ HasFailed(RBACEnabled)
             /\ ~preflightStatus

C26_Witness ==
    /\ RBACReturned
    /\ trace[1].err = "GroupDiscoveryFailed"
    /\ RBACListed
    /\ Len(cluster.groups) = 2
    /\ ~(cluster.groups[1].Group = RBACAPIGroup /\ cluster.groups[1].Version = RBACAPIVersion)
    /\ err = Nil

\* the volume snapshots of the run that are in the namespace
Snapshots == {r \in resources : r.kind = VolumeSnapshot}

\* the classes on the cluster named storageVolSnapClass
RecordedClasses ==
    {k \in 1..Len(cluster.vsscList) : cluster.vsscList[k].name = storageVolSnapClass}

\* C27: while a volume snapshot of the run exists, StorageSnapshotClassMatch
\* has passed in this run and storageVolSnapClass is set and names a class
\* of the cluster whose driver is the provisioner of the storage class; the
\* step that creates a snapshot leaves storageVolSnapClass as that check
\* set it.
C27_SnapshotUsesValidatedClass ==
    /\ [](Snapshots # {} =>
            /\ Passed(StorageSnapshotClassMatch)
            /\ storageSnapshotSuccess
            /\ storageVolSnapClass # ""
            /\ cluster.provisioner # NotFound
            /\ RecordedClasses # {}
            /\ \A k \in RecordedClasses : cluster.vsscList[k].driver = cluster.provisioner)
    /\ [][pc = VolumeSnapshotRoundTrip => storageVolSnapClass' = storageVolSnapClass]_vars

C27_Witness ==
    /\ pc = VolumeSnapshotRoundTrip
    /\ Cardinality(Snapshots) = 2
    /\ ops.SnapshotClass = ""
    /\ storageVolSnapClass = VsscName(1)

\* entry i of trace is the call op on the object with prefix
Call(i, op, prefix) == trace[i].op = op /\ trace[i].prefix = prefix

\* the prefixes of the objects of the second (unmounted) round
UnmountedPrefixes ==
    {"UnmountedVolumeSnapSrcNamePrefix", "UnmountedRestorePvcNamePrefix",
     "UnmountedRestorePodNamePrefix"}

\* the source pod has been created: a later get or delete of it is the
\* re-fetch or the delete that precede the second round
SourcePodRefetchOrDelete(i) ==
    /\ \/ Call(i, "delete", "SourcePodNamePrefix")
       \/ Call(i, "get", "SourcePodNamePrefix")
    /\ \E j \in 1..(i - 1) : Call(j, "exec", "RestorePodNamePrefix")

\* C28: VolumeSnapshotRoundTrip makes a call of its second round only after
\* the delete of the source pod has returned success; when the re-fetch or
\* the delete of the source pod fails the check is recorded as failed and
\* no object of the second round exists.  DNSResolves passes when the delete
\* of the DNS pod fails after a successful lookup.
C28_SecondRoundAfterSourcePodDeleted ==
    /\ Executed(VolumeSnapshotRoundTrip) =>
         /\ \A i \in 1..Len(trace) :
              trace[i].prefix \in UnmountedPrefixes =>
                 \E j \in 1..(i - 1) :
                    Call(j, "delete", "SourcePodNamePrefix") /\ trace[j].err = Nil
         /\ (/\ trace # <<>>
             /\ SourcePodRefetchOrDelete(Len(trace))
             /\ trace[Len(trace)].err # Nil) =>
               /\ HasFailed(VolumeSnapshotRoundTrip)
               /\ ~preflightStatus
               /\ pc \in {"Finish", "exited"}
               /\ \A r \in resources : r.name[1] \notin UnmountedPrefixes
    /\ (DNSReturned /\ DNSCall(Len(trace), "delete") /\ trace[Len(trace)].err # Nil) =>
         /\ err = Nil
         /\ Passed(DNSResolves)
         /\ DNSPod \in resources

C28_Witness ==
    /\ pc = "Finish"
    /\ Executed(VolumeSnapshotRoundTrip)
    /\ Call(Len(trace), "delete", "SourcePodNamePrefix")
    /\ trace[Len(trace)].err # Nil
    /\ SourcePod \in resources

\* C23: once ctx is cancelled, a step of VolumeSnapshotRoundTrip makes no
\* call to the cluster and no probe of a wait: it returns the error of the
\* ctx, the namespace is left as it is and no probe is counted; the
\* cleanup at the end of the run is still invoked.
C23_NoCallAfterCancel ==
    /\ [][(cancelled /\ pc = VolumeSnapshotRoundTrip /\ trace' # trace) =>
             trace'[Len(trace')].err = ContextCanceled]_vars
    /\ [][(cancelled /\ pc = VolumeSnapshotRoundTrip) =>
             (attempts' <= attempts /\ resources' = resources)]_vars
    /\ [][(cancelled /\ pc = "Finish"
           /\ ShouldCleanup(preflightStatus, ops.PerformCleanupOnFail)) =>
             cleanups' = <<resNameSuffix>>]_vars

====
